---- MODULE Spec2Model ----
(***************************************************************************)
(* flexx.util.config.Config: a named set of typed options whose values are *)
(* resolved from defaults, .cfg sources, environment variables, process    *)
(* arguments and direct assignment, each write going through the option's  *)
(* validator into a per-option history of (source, value) pairs.          *)
(*                                                                         *)
(* A Python str is modelled as the sequence of its characters, so that     *)
(* lower(), upper(), startswith(), slicing, concatenation and parsing are  *)
(* computed and not assumed.  A Python value is a record [t, v]: its type  *)
(* and its payload.  A float is kept in tenths (one decimal digit).        *)
(*                                                                         *)
(* Where an intermediate result is used several times it is bound by       *)
(* ranging over a one-element set ("r \in {e}"), which binds r to the value  *)
(* of e instead of to the expression.                                      *)
(***************************************************************************)
EXTENDS Integers, Sequences, FiniteSets, TLC

\* ------------------------------------------------------------------ bounds
\* At most this many options are passed to one constructor call.
MaxOptions == 2
\* At most this many arguments follow the program name in sys.argv.
MaxArgs == 2

\* ----------------------------------------------------------------- strings
Lowers == <<"a","b","c","d","e","f","g","h","i","j","k","l","m",
            "n","o","p","q","r","s","t","u","v","w","x","y","z">>
Uppers == <<"A","B","C","D","E","F","G","H","I","J","K","L","M",
            "N","O","P","Q","R","S","T","U","V","W","X","Y","Z">>
Digits == <<"0","1","2","3","4","5","6","7","8","9">>

\* Position of ch in seq, 0 when absent.
IndexIn(ch, seq) ==
    IF \E i \in 1..Len(seq) : seq[i] = ch
    THEN CHOOSE i \in 1..Len(seq) : seq[i] = ch
    ELSE 0

lower_ch(ch) == LET i == IndexIn(ch, Uppers) IN IF i > 0 THEN Lowers[i] ELSE ch
upper_ch(ch) == LET i == IndexIn(ch, Lowers) IN IF i > 0 THEN Uppers[i] ELSE ch

\* str.lower(), str.upper()
lower(s) == [i \in 1..Len(s) |-> lower_ch(s[i])]
upper(s) == [i \in 1..Len(s) |-> upper_ch(s[i])]

\* str.startswith(p)
startswith(s, p) == Len(s) >= Len(p) /\ SubSeq(s, 1, Len(p)) = p

\* s[n:]
slice_from(s, n) == SubSeq(s, n + 1, Len(s))

IsLetter(ch) == IndexIn(ch, Lowers) > 0 \/ IndexIn(ch, Uppers) > 0
IsDigit(ch) == IndexIn(ch, Digits) > 0

\* str.isidentifier() over the ASCII alphabet
isidentifier(s) ==
    /\ Len(s) > 0
    /\ IsLetter(s[1]) \/ s[1] = "_"
    /\ \A i \in 1..Len(s) : IsLetter(s[i]) \/ IsDigit(s[i]) \/ s[i] = "_"

\* str.strip() for blanks
RECURSIVE lstrip(_)
lstrip(s) == IF Len(s) > 0 /\ s[1] = " " THEN lstrip(Tail(s)) ELSE s
RECURSIVE rstrip(_)
rstrip(s) ==
    IF Len(s) > 0 /\ s[Len(s)] = " " THEN rstrip(SubSeq(s, 1, Len(s) - 1)) ELSE s
strip(s) == rstrip(lstrip(s))

\* ------------------------------------------------------------------ values
VStr(s) == [t |-> "str", v |-> s]
VInt(n) == [t |-> "int", v |-> n]
VBool(b) == [t |-> "bool", v |-> b]
VFloat(tenths) == [t |-> "float", v |-> tenths]
None == [t |-> "none", v |-> <<>>]

\* The outcome of a call: the exception raised ("" for none) and its value.
Ok(val) == [err |-> "", val |-> val]
Raise(e) == [err |-> e, val |-> None]

\* Decimal digits of a natural number, and back.
RECURSIVE NatToStr(_)
NatToStr(n) ==
    IF n < 10 THEN <<Digits[n + 1]>> ELSE NatToStr(n \div 10) \o <<Digits[(n % 10) + 1]>>
IntToStr(n) == IF n < 0 THEN <<"-">> \o NatToStr(-n) ELSE NatToStr(n)

AllDigits(s) == Len(s) > 0 /\ \A i \in 1..Len(s) : IsDigit(s[i])
RECURSIVE ParseNat(_)
ParseNat(s) ==
    IF Len(s) = 0 THEN 0
    ELSE 10 * ParseNat(SubSeq(s, 1, Len(s) - 1)) + (IndexIn(s[Len(s)], Digits) - 1)

HasSign(s) == Len(s) > 0 /\ s[1] \in {"+", "-"}
Unsigned(s) == IF HasSign(s) THEN Tail(s) ELSE s
Signed(s, n) == IF HasSign(s) /\ s[1] = "-" THEN -n ELSE n

\* A base-10 integer literal: optional sign, then digits.
IsIntLiteral(s) == AllDigits(Unsigned(s))

\* A decimal literal "d+", "d+.", "d+.d+" or ".d+" with an optional sign.  Its
\* value is kept in tenths; the inputs of the model carry at most one decimal.
DotAt(s) == IndexIn(".", s)
IntPart(s) == IF DotAt(s) = 0 THEN s ELSE SubSeq(s, 1, DotAt(s) - 1)
FracPart(s) == IF DotAt(s) = 0 THEN <<>> ELSE SubSeq(s, DotAt(s) + 1, Len(s))
IsFloatLiteral(s) ==
    LET u == Unsigned(s) IN
    /\ Len(IntPart(u)) + Len(FracPart(u)) > 0
    /\ \A i \in 1..Len(IntPart(u)) : IsDigit(IntPart(u)[i])
    /\ \A i \in 1..Len(FracPart(u)) : IsDigit(FracPart(u)[i])
ParseTenths(s) ==
    LET u == Unsigned(s)
        f == FracPart(u)
    IN Signed(s, 10 * ParseNat(IntPart(u)) + (IF Len(f) = 0 THEN 0 ELSE ParseNat(<<f[1]>>)))

\* Truncation toward zero of a value in tenths.
Trunc(tenths) == IF tenths < 0 THEN -((-tenths) \div 10) ELSE tenths \div 10
FloatToStr(tenths) ==
    (IF tenths < 0 THEN <<"-">> ELSE <<>>)
        \o NatToStr((IF tenths < 0 THEN -tenths ELSE tenths) \div 10)
        \o <<".">>
        \o NatToStr((IF tenths < 0 THEN -tenths ELSE tenths) % 10)

\* ------------------------------------------------------------- validators
BOOLEAN_STATES ==
    (<<"1">> :> TRUE) @@ (<<"y","e","s">> :> TRUE) @@ (<<"t","r","u","e">> :> TRUE)
    @@ (<<"o","n">> :> TRUE) @@ (<<"0">> :> FALSE) @@ (<<"n","o">> :> FALSE)
    @@ (<<"f","a","l","s","e">> :> FALSE) @@ (<<"o","f","f">> :> FALSE)

as_bool(value) ==
    IF value.t = "bool" THEN Ok(value)
    ELSE IF value.t = "str" /\ lower(value.v) \in DOMAIN BOOLEAN_STATES
    THEN Ok(VBool(BOOLEAN_STATES[lower(value.v)]))
    ELSE Raise("ValueError")

\* The builtin int(value)
py_int(value) ==
    CASE value.t = "int" -> Ok(value)
      [] value.t = "bool" -> Ok(VInt(IF value.v THEN 1 ELSE 0))
      [] value.t = "float" -> Ok(VInt(Trunc(value.v)))
      [] value.t = "str" ->
            IF IsIntLiteral(strip(value.v))
            THEN Ok(VInt(Signed(strip(value.v), ParseNat(Unsigned(strip(value.v))))))
            ELSE Raise("ValueError")
      [] OTHER -> Raise("TypeError")

\* The builtin float(value)
py_float(value) ==
    CASE value.t = "float" -> Ok(value)
      [] value.t = "int" -> Ok(VFloat(10 * value.v))
      [] value.t = "bool" -> Ok(VFloat(IF value.v THEN 10 ELSE 0))
      [] value.t = "str" ->
            IF IsFloatLiteral(strip(value.v))
            THEN Ok(VFloat(ParseTenths(strip(value.v))))
            ELSE Raise("ValueError")
      [] OTHER -> Raise("TypeError")

\* The builtin str(value)
py_str(value) ==
    CASE value.t = "str" -> Ok(value)
      [] value.t = "int" -> Ok(VStr(IntToStr(value.v)))
      [] value.t = "bool" ->
            Ok(VStr(IF value.v THEN <<"T","r","u","e">> ELSE <<"F","a","l","s","e">>))
      [] value.t = "float" -> Ok(VStr(FloatToStr(value.v)))
      [] OTHER -> Ok(VStr(<<"N","o","n","e">>))

\* TYPEMAP = {str: str, float: float, int: int, bool: as_bool}: the classes
\* that are its keys, and the validator each maps to.
TYPEMAP == {"str", "float", "int", "bool"}
Validate(validator, value) ==
    CASE validator = "str" -> py_str(value)
      [] validator = "float" -> py_float(value)
      [] validator = "int" -> py_int(value)
      [] validator = "bool" -> as_bool(value)

\* What is passed as an option's type: a class, or a tuple holding one class.
Class(c) == [shape |-> "class", of |-> c]
TupleOf(c) == [shape |-> "tuple", of |-> c]

\* isinstance(typ, type) and issubclass(typ, tuple(TYPEMAP))
IsSupportedType(typ) == typ.shape = "class" /\ typ.of \in TYPEMAP

is_valid_name(n) == isidentifier(n) /\ ~startswith(n, <<"_">>)

\* ------------------------------------------------ configparser.ConfigParser
\* read_string() on the dialect the sources of the model use: lines split on
\* "\n", blank and comment lines skipped, "[name]" opens a section, and
\* "key = value" or "key: value" adds an option whose key is lower-cased
\* (optionxform) and whose value is stripped.  strict=True: a section or an
\* option given twice is an error, as are an option before any section and a line
\* with no delimiter.
RECURSIVE splitlines(_)
splitlines(s) ==
    IF IndexIn("\n", s) = 0 THEN <<s>>
    ELSE CHOOSE r \in { <<SubSeq(s, 1, i - 1)>> \o splitlines(rest) :
                          i \in {IndexIn("\n", s)},
                          rest \in {SubSeq(s, IndexIn("\n", s) + 1, Len(s))} } : TRUE

DelimAt(line) ==
    LET e == IndexIn("=", line)
        c == IndexIn(":", line)
    IN IF e = 0 THEN c ELSE IF c = 0 THEN e ELSE IF e < c THEN e ELSE c

ReadLine(acc, raw) ==
    LET line == strip(raw)
        close == IndexIn("]", line)
        d == DelimAt(line)
    IN
    IF acc.err # "" \/ Len(line) = 0 THEN acc
    ELSE IF line[1] \in {"#", ";"} THEN acc
    ELSE IF line[1] = "[" /\ close > 2
    THEN LET sect == SubSeq(line, 2, close - 1) IN
         IF sect \in DOMAIN acc.sections
         THEN [acc EXCEPT !.err = "DuplicateSectionError"]
         ELSE [acc EXCEPT !.cur = <<sect>>, !.sections = (sect :> <<>>) @@ @]
    ELSE IF acc.cur = <<>> THEN [acc EXCEPT !.err = "MissingSectionHeaderError"]
    ELSE IF d = 0 THEN [acc EXCEPT !.err = "ParsingError"]
    ELSE LET key == lower(strip(SubSeq(line, 1, d - 1)))
             val == strip(SubSeq(line, d + 1, Len(line)))
             sect == acc.cur[1]
         IN IF key \in DOMAIN acc.sections[sect]
            THEN [acc EXCEPT !.err = "DuplicateOptionError"]
            ELSE [acc EXCEPT !.sections[sect] = (key :> val) @@ @]

RECURSIVE ReadLines(_, _, _)
ReadLines(acc, lines, i) ==
    IF i > Len(lines) THEN acc
    ELSE CHOOSE r \in { ReadLines(a, lines, i + 1) : a \in {ReadLine(acc, lines[i])} } : TRUE

read_string(s) ==
    CHOOSE r \in { ReadLines([err |-> "", cur |-> <<>>, sections |-> <<>>], lines, 1) :
                     lines \in {splitlines(s)} } : TRUE

has_section(parser, section) == section \in DOMAIN parser.sections
has_option(parser, section, option) == lower(option) \in DOMAIN parser.sections[section]
parser_get(parser, section, option) == parser.sections[section][lower(option)]

\* -------------------------------------------------------------- Config._set
SRC_DEFAULT == <<"d","e","f","a","u","l","t">>
SRC_ENVIRON == <<"e","n","v","i","r","o","n">>
SRC_ARGV == <<"a","r","g","v">>
SRC_SET == <<"s","e","t">>
SRC_STRING == <<"<","s","t","r","i","n","g",">">>

\* The setter with the history rule broken: every write appends.
_set_always_appends(opt_values, opt_validators, source, name, value) ==
    LET r == Validate(opt_validators[lower(name)], value)
        s == opt_values[lower(name)]
    IN IF r.err # "" THEN [err |-> r.err, vals |-> opt_values]
       ELSE [err |-> "",
             vals |-> [opt_values EXCEPT ![lower(name)] =
                          Append(s, [source |-> source, value |-> r.val])]]

\* The setter writing before it validates: a rejected value still lands.
_set_before_validating(opt_values, opt_validators, source, name, value) ==
    LET r == Validate(opt_validators[lower(name)], value)
        s == opt_values[lower(name)]
        e == [source |-> source, value |-> r.val]
    IN [err |-> r.err,
        vals |-> [opt_values EXCEPT ![lower(name)] =
                     IF Len(s) > 0 /\ s[Len(s)].source = source
                     THEN [s EXCEPT ![Len(s)] = e]
                     ELSE Append(s, e)]]

\* self._set(source, name, value) on the histories opt_values: the exception
\* raised ("" for none) and the histories afterwards.
_set(opt_values, opt_validators, source, name, value) ==
    LET r == Validate(opt_validators[lower(name)], value)
        s == opt_values[lower(name)]
        e == [source |-> source, value |-> r.val]
    IN IF r.err # "" THEN [err |-> r.err, vals |-> opt_values]
       ELSE [err |-> "",
             vals |-> [opt_values EXCEPT ![lower(name)] =
                          IF Len(s) > 0 /\ s[Len(s)].source = source
                          THEN [s EXCEPT ![Len(s)] = e]
                          ELSE Append(s, e)]]

\* One self._set call inside the constructor, on the object o being built:
\* nothing once an exception is under way; otherwise the call's effect, and
\* the call recorded in the log of the writes that succeeded.
Write(o, source, name, value) ==
    IF o.err # "" THEN o
    ELSE CHOOSE w \in
           { [o EXCEPT !.err = r.err,
                       !.vals = r.vals,
                       !.log = IF r.err # "" THEN @
                               ELSE Append(@, [source |-> source,
                                               key |-> lower(name),
                                               raw |-> value,
                                               before |-> o.vals[lower(name)],
                                               after |-> r.vals[lower(name)]])] :
             r \in {_set(o.vals, o.validators, source, name, value)} } : TRUE

\* ------------------------------------------------------------ collaborators
\* appdata_dir(appname) where the application data live under the home
\* directory (the Linux branch, no local settings directory).
appdata_dir(appname) == <<"~", "/", ".">> \o appname
\* application_dir() of a script.
application_dir == <<"/", "a", "p", "p">>
path_join(a, b) == a \o <<"/">> \o b
CFG == <<".", "c", "f", "g">>
CONFIG_CFG == <<"c", "o", "n", "f", "i", "g">> \o CFG

isfile(fs, path) == path \in DOMAIN fs
\* A lookup that treats an empty variable as an absent one.
getenv_nonempty(env, n) ==
    IF n \in DOMAIN env /\ env[n] # <<>> THEN VStr(env[n]) ELSE None

\* os.getenv(name, None)
getenv(env, n) == IF n \in DOMAIN env THEN VStr(env[n]) ELSE None

\* --------------------------------------------------------- Config.__init__
\* for name, spec in options.items(): the checks, then the registration.
RECURSIVE ParseOptions(_, _, _)
ParseOptions(o, options, i) ==
    IF o.err # "" \/ i > Len(options) THEN o
    ELSE LET spec == options[i]
             key == lower(spec.name)
         IN IF ~is_valid_name(spec.name)
            THEN [o EXCEPT !.err = "ValueError", !.stage = "option-name"]
            ELSE IF ~IsSupportedType(spec.typ)
            THEN [o EXCEPT !.err = "ValueError", !.stage = "option-type"]
            ELSE CHOOSE r \in
                   { ParseOptions(n, options, i + 1) :
                     n \in { [o EXCEPT !.options = Append(@, spec.name),
                                       !.validators = (key :> spec.typ.of) @@ @,
                                       !.vals = (key :> <<>>) @@ @,
                                       !.keys = IF IndexIn(key, @) > 0 THEN @
                                                ELSE Append(@, key)] } } : TRUE

\* for name, spec in options.items(): self._set('default', name, spec[0])
RECURSIVE SetDefaults(_, _, _)
SetDefaults(o, options, i) ==
    IF o.err # "" \/ i > Len(options) THEN o
    ELSE CHOOSE r \in
           { SetDefaults(n, options, i + 1) :
             n \in {Write(o, SRC_DEFAULT, options[i].name, options[i].default)} } : TRUE

\* for name in self._options: if parser.has_option(...): self._set(filename, ...)
RECURSIVE LoadOptions(_, _, _, _)
LoadOptions(o, parser, filename, i) ==
    IF o.err # "" \/ i > Len(o.options) THEN o
    ELSE CHOOSE r \in
           { LoadOptions(n, parser, filename, i + 1) :
             n \in { IF has_option(parser, o.name, o.options[i])
                     THEN Write(o, filename, o.options[i],
                                VStr(parser_get(parser, o.name, o.options[i])))
                     ELSE o } } : TRUE

_load_from_string(o, s, filename) ==
    CHOOSE r \in
      { IF parser.err # "" THEN [o EXCEPT !.err = parser.err]
        ELSE IF has_section(parser, o.name) THEN LoadOptions(o, parser, filename, 1)
        ELSE o :
        parser \in {read_string(s)} } : TRUE

\* One round of "for source in filenames + list(sources)".  Both handlers
\* format their warning with str(e), and no e is bound (the exception is
\* bound to err): the handler itself raises NameError.
LoadSource(o, fs, source) ==
    IF source.t # "str" THEN [o EXCEPT !.err = "ValueError"]
    ELSE LET s == source.v
             istext == IndexIn("\n", s) > 0
             isreadable == ~istext /\ isfile(fs, s) /\ fs[s].readable
             text == IF istext THEN s ELSE IF isreadable THEN fs[s].content ELSE <<>>
             filename == IF istext THEN SRC_STRING ELSE s
         IN IF ~istext /\ isfile(fs, s) /\ ~fs[s].readable
            THEN [o EXCEPT !.err = "NameError"]
            ELSE IF text = <<>> THEN o
            ELSE CHOOSE n \in
                   { IF r.err # "" THEN [r EXCEPT !.err = "NameError"] ELSE r :
                     r \in {_load_from_string(o, text, filename)} } : TRUE

RECURSIVE LoadSources(_, _, _, _)
LoadSources(o, fs, sources, i) ==
    IF o.err # "" \/ i > Len(sources) THEN o
    ELSE CHOOSE r \in
           { LoadSources(n, fs, sources, i + 1) :
             n \in {LoadSource(o, fs, sources[i])} } : TRUE

\* The three candidate files tried before the caller's sources.
DefaultFilenames(name) ==
    << VStr(appdata_dir(name) \o CFG),
       VStr(path_join(appdata_dir(name), CONFIG_CFG)),
       VStr(path_join(application_dir, CONFIG_CFG)) >>

\* for name in self._opt_values: the variable, when os.getenv finds it.
RECURSIVE LoadEnviron(_, _, _)
LoadEnviron(o, env, i) ==
    IF o.err # "" \/ i > Len(o.keys) THEN o
    ELSE LET name == o.keys[i]
             env_name == upper(o.name \o <<"_">> \o name)
             value == getenv(env, env_name)
         IN CHOOSE r \in
              { LoadEnviron(n, env, i + 1) :
                n \in { IF value # None THEN Write(o, SRC_ENVIRON, name, value)
                        ELSE o } } : TRUE

\* for i in range(1, len(sys.argv)-1); sys.argv[i] is args[i + 1] here.
RECURSIVE LoadArgv(_, _, _)
LoadArgv(o, args, i) ==
    IF o.err # "" \/ i > Len(args) - 2 THEN o
    ELSE LET arg == args[i + 1]
             arg_prefix == <<"-", "-">> \o o.name \o <<"-">>
             name == slice_from(arg, Len(arg_prefix))
         IN CHOOSE r \in
              { LoadArgv(n, args, i + 1) :
                n \in { IF startswith(arg, arg_prefix) /\ lower(name) \in DOMAIN o.vals
                        THEN Write(o, SRC_ARGV, name, VStr(args[i + 2]))
                        ELSE o } } : TRUE

\* A stage of the constructor: skipped once an exception is under way, so
\* that stage names the stage that raised.
Stage(o, stage) == IF o.err # "" THEN o ELSE [o EXCEPT !.stage = stage]

\* The k-th block of the constructor's body after the name check.
RunStage(o, k, sources, options, env, args, fs) ==
    CASE k = 1 -> ParseOptions(Stage(o, "options"), options, 1)
      [] k = 2 -> SetDefaults(Stage(o, "defaults"), options, 1)
      [] k = 3 -> LoadSources(Stage(o, "sources"), fs,
                              DefaultFilenames(o.name) \o sources, 1)
      [] k = 4 -> LoadEnviron(Stage(o, "environ"), env, 1)
      [] k = 5 -> LoadArgv(Stage(o, "argv"), args, 1)
      [] OTHER -> Stage(o, "done")

RECURSIVE RunStages(_, _, _, _, _, _, _)
RunStages(o, k, sources, options, env, args, fs) ==
    IF k > 6 THEN o
    ELSE CHOOSE r \in
           { RunStages(n, k + 1, sources, options, env, args, fs) :
             n \in {RunStage(o, k, sources, options, env, args, fs)} } : TRUE

\* Config(name, *sources, **options) in a process with the environment env,
\* the arguments args and the files fs: the object built, the exception raised
\* ("" for none) and the stage that raised it.
Config__init__(name, sources, options, env, args, fs) ==
    RunStages([name |-> name, options |-> <<>>, validators |-> <<>>, vals |-> <<>>,
               keys |-> <<>>, log |-> <<>>,
               err |-> IF is_valid_name(name) THEN "" ELSE "ValueError",
               stage |-> "name"],
              1, sources, options, env, args, fs)

\* -------------------------------------------------------------------- state
VARIABLES
    environ,          \* os.environ: variable name -> value
    argv,             \* sys.argv
    files,            \* the files that exist: path -> [readable, content]
    pc,               \* "start", then "ready" (constructed) or "failed" (it raised)
    _name,            \* self._name
    _options,         \* self._options: the option names as given, in order
    _opt_values,      \* self._opt_values: lower-case name -> history
    _opt_validators,  \* self._opt_validators: lower-case name -> validator
    fields,           \* the instance's other attributes: name -> value
    call,             \* the constructor call that was made
    raised,           \* what the constructor raised, and in which stage
    writes,           \* the constructor's _set calls that succeeded, in order
    last              \* the last direct call on the object and its outcome

vars == <<environ, argv, files, pc, _name, _options, _opt_values, _opt_validators,
          fields, call, raised, writes, last>>

process == <<environ, argv, files>>
object == <<_name, _options, _opt_values, _opt_validators, fields>>

\* ------------------------------------------------------------------- inputs
NAME_c == <<"c">>
NAME_C == <<"C">>
OPT_a == <<"a">>
OPT_A == <<"A">>
OPT_b == <<"b">>
OPT_z == <<"z">>

\* The option specifications (default, type, docs) a caller passes.
OptionSpecs ==
    { [name |-> OPT_a, default |-> VInt(4), typ |-> Class("int")],
      [name |-> OPT_A, default |-> VStr(<<"x">>), typ |-> Class("str")],
      [name |-> OPT_A, default |-> VInt(3), typ |-> Class("float")],
      [name |-> OPT_b, default |-> VBool(FALSE), typ |-> Class("bool")],
      [name |-> OPT_b, default |-> VInt(1), typ |-> TupleOf("int")] }

\* **options: a dict, so no name occurs twice; names that differ in case are
\* different keys.
OptionLists ==
    { l \in UNION { [1..n -> OptionSpecs] : n \in 0..MaxOptions } :
        \A i, j \in 1..Len(l) : i # j => l[i].name # l[j].name }

\* Literal .cfg text, and paths.
TEXT_a1 == <<"\n", "[", "c", "]", "\n", "a", "=", "1", "\n">>
TEXT_ax == <<"\n", "[", "c", "]", "\n", "A", " ", "=", " ", "x", "\n">>
TEXT_bad == <<"\n", "a", "=", "1", "\n">>
PATH_f == <<"f">> \o CFG
PATH_g == <<"g">> \o CFG
PATH_m == <<"m">> \o CFG
FILE_a6 == [readable |-> TRUE, content |-> <<"[", "c", "]", "\n", "a", ":", "6">>]
FILE_a5 == [readable |-> TRUE, content |-> <<"[", "c", "]", "\n", "a", "=", "5">>]
FILE_unreadable == [readable |-> FALSE, content |-> <<>>]

FS_plain == (PATH_f :> FILE_a6) @@ (PATH_g :> FILE_unreadable)
FS_appdata == ((appdata_dir(NAME_c) \o CFG) :> FILE_a5) @@ FS_plain

ENV_none == [n \in {} |-> <<>>]
ENV_C_A == <<"C", "_", "A">>
ENV_C_B == <<"C", "_", "B">>

PROG == <<"p", "y">>
FLAG_c_A == <<"-", "-", "c", "-", "A">>
FLAG_c_z == <<"-", "-", "c", "-", "z">>
ArgTokens == { FLAG_c_A, FLAG_c_z, <<"3">> }
Argvs == { <<PROG>> \o l : l \in UNION { [1..n -> ArgTokens] : n \in 0..MaxArgs } }

Environs ==
    { ENV_none,
      ENV_C_A :> <<>>,
      ENV_C_A :> <<"2">>,
      (ENV_C_A :> <<"2">>) @@ (ENV_C_B :> <<"n", "o">>) }

\* *sources as a caller passes them.
SourceLists ==
    { <<>>,
      <<VStr(TEXT_a1)>>,
      <<VStr(TEXT_ax)>>,
      <<VStr(TEXT_bad)>>,
      <<VStr(PATH_f)>>,
      <<VStr(PATH_g)>>,
      <<VStr(PATH_m)>>,
      <<VInt(3)>>,
      <<VStr(PATH_f), VStr(TEXT_a1)>>,
      <<VStr(TEXT_bad), VStr(TEXT_a1)>> }

\* The values of direct assignments.
SetValues == { VStr(<<"1">>), VStr(<<"x">>), VInt(3) }
\* The names of attribute reads and writes, and of subscript reads and writes.
AttrNames == { OPT_a, OPT_A }
ItemNames == { OPT_a, OPT_A, OPT_b, OPT_z }

NoCall == [name |-> <<>>, sources |-> <<>>, options |-> <<>>]
NoLast == [op |-> "", name |-> <<>>, value |-> None, err |-> "", result |-> None]

\* ------------------------------------------------------------------ actions
InitObject ==
    /\ pc = "start"
    /\ _name = <<>>
    /\ _options = <<>>
    /\ _opt_values = <<>>
    /\ _opt_validators = <<>>
    /\ fields = <<>>
    /\ call = NoCall
    /\ raised = [err |-> "", stage |-> ""]
    /\ writes = <<>>
    /\ last = NoLast

\* A process with few sources around.
Init ==
    /\ environ \in { ENV_none, ENV_C_A :> <<"2">> }
    /\ argv = <<PROG>>
    /\ files = FS_plain
    /\ InitObject

\* c = Config(name, *sources, **options)
Construct(names, lists) ==
    /\ pc = "start"
    /\ \E name \in names, sources \in lists, options \in OptionLists :
       \E o \in {Config__init__(name, sources, options, environ, argv, files)} :
         /\ call' = [name |-> name, sources |-> sources, options |-> options]
         /\ raised' = [err |-> o.err, stage |-> o.stage]
         /\ writes' = o.log
         /\ IF o.err = ""
            THEN /\ pc' = "ready"
                 /\ _name' = o.name
                 /\ _options' = o.options
                 /\ _opt_values' = o.vals
                 /\ _opt_validators' = o.validators
            ELSE /\ pc' = "failed"
                 /\ UNCHANGED <<_name, _options, _opt_values, _opt_validators>>
    /\ UNCHANGED <<process, fields, last>>

IsOption(name) == ~startswith(name, <<"_">>) /\ IndexIn(name, _options) > 0
Current(key) == _opt_values[key][Len(_opt_values[key])].value

\* A read that returns the oldest history entry instead of the newest.
__getattr__oldest(name) ==
    IF name \in DOMAIN fields THEN Ok(fields[name])
    ELSE IF IsOption(name) THEN Ok(_opt_values[lower(name)][1].value)
    ELSE Raise("AttributeError")

\* c.name: the instance's own attribute when it has one, else __getattr__.
__getattr__(name) ==
    IF name \in DOMAIN fields THEN Ok(fields[name])
    ELSE IF IsOption(name) THEN Ok(Current(lower(name)))
    ELSE Raise("AttributeError")

\* A subscript read that answers None for an unknown name instead of raising.
__getitem__or_none(name) ==
    IF lower(name) \in DOMAIN _opt_values THEN Ok(Current(lower(name)))
    ELSE Ok(None)

\* c[name]
__getitem__(name) ==
    IF lower(name) \in DOMAIN _opt_values THEN Ok(Current(lower(name)))
    ELSE Raise("IndexError")

\* c.name = value: the exception raised, and the histories and the instance's
\* own attributes afterwards.
__setattr__(name, value) ==
    IF IsOption(name)
    THEN CHOOSE x \in { [err |-> r.err, vals |-> r.vals, fields |-> fields] :
                        r \in {_set(_opt_values, _opt_validators, SRC_SET, name, value)} } : TRUE
    ELSE [err |-> "", vals |-> _opt_values, fields |-> (name :> value) @@ fields]

\* A subscript write that appends its entry without looking at the last tag.
__setitem__appending(name, value) ==
    IF lower(name) \in DOMAIN _opt_values
    THEN CHOOSE x \in
           { [err |-> r.err,
              vals |-> IF r.err # "" THEN _opt_values
                       ELSE [_opt_values EXCEPT ![lower(name)] =
                               Append(@, [source |-> SRC_SET, value |-> r.val])],
              fields |-> fields] :
             r \in {Validate(_opt_validators[lower(name)], value)} } : TRUE
    ELSE [err |-> "IndexError", vals |-> _opt_values, fields |-> fields]

\* c[name] = value
__setitem__(name, value) ==
    IF lower(name) \in DOMAIN _opt_values
    THEN CHOOSE x \in { [err |-> r.err, vals |-> r.vals, fields |-> fields] :
                        r \in {_set(_opt_values, _opt_validators, SRC_SET, name, value)} } : TRUE
    ELSE [err |-> "IndexError", vals |-> _opt_values, fields |-> fields]

GetAttr ==
    /\ pc = "ready"
    /\ \E name \in AttrNames :
         \E r \in {__getattr__(name)} :
            last' = [op |-> "getattr", name |-> name, value |-> None,
                     err |-> r.err, result |-> r.val]
    /\ UNCHANGED <<process, pc, object, call, raised, writes>>

GetItem ==
    /\ pc = "ready"
    /\ \E name \in ItemNames :
         \E r \in {__getitem__(name)} :
            last' = [op |-> "getitem", name |-> name, value |-> None,
                     err |-> r.err, result |-> r.val]
    /\ UNCHANGED <<process, pc, object, call, raised, writes>>

SetAttr ==
    /\ pc = "ready"
    /\ \E name \in AttrNames, value \in SetValues :
         \E r \in {__setattr__(name, value)} :
            /\ _opt_values' = r.vals
            /\ fields' = r.fields
            /\ last' = [op |-> "setattr", name |-> name, value |-> value,
                        err |-> r.err, result |-> None]
    /\ UNCHANGED <<process, pc, _name, _options, _opt_validators, call, raised, writes>>

SetItem ==
    /\ pc = "ready"
    /\ \E name \in ItemNames, value \in SetValues :
         \E r \in {__setitem__(name, value)} :
            /\ _opt_values' = r.vals
            /\ fields' = r.fields
            /\ last' = [op |-> "setitem", name |-> name, value |-> value,
                        err |-> r.err, result |-> None]
    /\ UNCHANGED <<process, pc, _name, _options, _opt_validators, call, raised, writes>>

New == Construct({NAME_c}, { <<>> })

Next == New \/ GetAttr \/ GetItem \/ SetAttr \/ SetItem

Spec == Init /\ [][Next]_vars

\* A process with every kind of source around, and the constructor alone.
InitSources ==
    /\ environ \in Environs
    /\ argv \in Argvs
    /\ files \in { FS_plain, FS_appdata }
    /\ InitObject

NewFromSources == Construct({NAME_c, NAME_C}, SourceLists)

NextSources == NewFromSources

SpecSources == InitSources /\ [][NextSources]_vars

\* ------------------------------------------------------- claims: vocabulary
Last(h) == h[Len(h)]
Registered == DOMAIN _opt_values
StepIsDirectWrite == last' # last /\ last'.op \in {"setattr", "setitem"}
StepIsDirectAccess == last' # last /\ last'.op \in {"getattr", "getitem", "setattr", "setitem"}

\* Whether the direct call recorded in l addresses a registered option.
AddressesOption(l) ==
    IF l.op \in {"getattr", "setattr"} THEN IsOption(l.name)
    ELSE lower(l.name) \in Registered

\* The lower-case names the constructor call registers, and the validator each
\* ends up with.
CallKeys == { lower(call.options[i].name) : i \in 1..Len(call.options) }
SpecsOf(k) == { i \in 1..Len(call.options) : lower(call.options[i].name) = k }
CallKind(k) == call.options[CHOOSE i \in SpecsOf(k) : \A j \in SpecsOf(k) : j <= i].typ.of

\* The sources of the constructor call as the specification describes them.
EnvName(k) == upper(call.name \o <<"_">> \o k)
EnvPresent(k) == EnvName(k) \in DOMAIN environ
\* Positions i of sys.argv (argv[i + 1] here) holding a flag for option k that
\* is followed by a value token.
FlagFor(k, cfgname) ==
    { i \in 1..(Len(argv) - 2) :
        /\ startswith(argv[i + 1], <<"-", "-">> \o cfgname \o <<"-">>)
        /\ lower(slice_from(argv[i + 1], Len(cfgname) + 3)) = k }
Max(S) == CHOOSE x \in S : \A y \in S : y <= x
\* The candidate sources that are text, and the entry each holds for option k.
SourceText(src) ==
    IF src.t # "str" THEN <<>>
    ELSE IF IndexIn("\n", src.v) > 0 THEN src.v
    ELSE IF src.v \in DOMAIN files /\ files[src.v].readable THEN files[src.v].content
    ELSE <<>>
Candidates == DefaultFilenames(call.name) \o call.sources
HoldsEntry(src, k) ==
    /\ SourceText(src) # <<>>
    /\ read_string(SourceText(src)).err = ""
    /\ call.name \in DOMAIN read_string(SourceText(src)).sections
    /\ k \in DOMAIN read_string(SourceText(src)).sections[call.name]
EntryOf(src, k) == read_string(SourceText(src)).sections[call.name][k]
FilesFor(k) == { i \in 1..Len(Candidates) : HoldsEntry(Candidates[i], k) }

\* The raw value of the highest-ranked source present for option k, in the
\* order default < file sources < environ < argv, given the default.
Winner(k, default) ==
    IF FlagFor(k, lower(call.name)) # {}
    THEN VStr(argv[Max(FlagFor(k, lower(call.name))) + 2])
    ELSE IF EnvPresent(k) THEN VStr(environ[EnvName(k)])
    ELSE IF FilesFor(k) # {} THEN VStr(EntryOf(Candidates[Max(FilesFor(k))], k))
    ELSE default

\* ------------------------------------------------------------------ claims
\* C1: right after construction every option's current value is the coerced
\* value of the highest-ranked source present for it (default < file sources
\* in order < environ < argv), and a later successful direct assignment
\* becomes the current value.
C1_PrecedenceLaw ==
    /\ (pc = "ready" /\ last.op = "") =>
          \A i \in 1..Len(call.options) :
             __getattr__(call.options[i].name) =
                Validate(call.options[i].typ.of,
                         Winner(lower(call.options[i].name), call.options[i].default))
    /\ (pc = "ready" /\ last.op \in {"setattr", "setitem"} /\ last.err = ""
           /\ AddressesOption(last)) =>
          __getitem__(last.name).val \in
             { Validate(call.options[i].typ.of, last.value).val :
                 i \in SpecsOf(lower(last.name)) }

\* The history-overwrite law for one write with tag source that took a history
\* from before to after and stored value.
OverwriteLaw(source, before, after, value) ==
    /\ Len(after) >= 1
    /\ Last(after) = [source |-> source, value |-> value]
    /\ IF Len(before) > 0 /\ Last(before).source = source
       THEN /\ Len(after) = Len(before)
            /\ \A i \in 1..(Len(before) - 1) : after[i] = before[i]
       ELSE /\ Len(after) = Len(before) + 1
            /\ \A i \in 1..Len(before) : after[i] = before[i]

C2_ConstructionWrites ==
    \A i \in 1..Len(writes) :
       OverwriteLaw(writes[i].source, writes[i].before, writes[i].after,
                    Validate(CallKind(writes[i].key), writes[i].raw).val)
C2_CurrentIsLast ==
    pc = "ready" =>
       \A k \in Registered : __getitem__(k) = Ok(Last(_opt_values[k]).value)
C2_DirectWrites ==
    (StepIsDirectWrite /\ last'.err = "" /\ AddressesOption(last')) =>
       /\ OverwriteLaw(SRC_SET, _opt_values[lower(last'.name)],
                       _opt_values'[lower(last'.name)],
                       Validate(_opt_validators[lower(last'.name)], last'.value).val)
       /\ \A k \in Registered \ {lower(last'.name)} : _opt_values'[k] = _opt_values[k]

\* C2: every successful write replaces the value of the last history entry
\* when that entry carries the write's source-tag (length unchanged) and
\* otherwise appends one entry; either way the current value is the written one.
C2_HistoryOverwriteLaw ==
    [](C2_ConstructionWrites /\ C2_CurrentIsLast) /\ [][C2_DirectWrites]_vars

\* A construction that overwrote an entry of the same tag and appended another,
\* followed by a direct write that overwrote the 'set' entry.
C2_Witness ==
    /\ pc = "ready"
    /\ \E i \in 1..Len(writes) :
          Len(writes[i].before) > 0 /\ Last(writes[i].before).source = writes[i].source
    /\ \E i \in 1..Len(writes) :
          Len(writes[i].before) > 0 /\ Last(writes[i].before).source # writes[i].source
    /\ last.op = "setitem" /\ last.err = "" /\ AddressesOption(last)
    /\ Len(_opt_values[lower(last.name)]) >= 3
    /\ Last(_opt_values[lower(last.name)]).source = SRC_SET

\* C3: a file or literal-text source that cannot be read, parsed or coerced
\* does not make construction fail: the only failure the sources stage may
\* produce is the ValueError for a source that is not a string.
C3_SourceErrorsRecovered ==
    (pc = "failed" /\ raised.stage = "sources") =>
       /\ raised.err = "ValueError"
       /\ \E i \in 1..Len(call.sources) : call.sources[i].t # "str"

\* The validator's verdict on the value of the direct write recorded in l.
Verdict(l) == Validate(_opt_validators[lower(l.name)], l.value)
C4_RejectedWrite ==
    (StepIsDirectWrite /\ AddressesOption(last') /\ Verdict(last').err # "") =>
       /\ last'.err = Verdict(last').err
       /\ _opt_values' = _opt_values
       /\ UNCHANGED object

\* C4: a direct assignment whose value the option's validator rejects raises
\* and leaves the whole history of every option exactly as it was.
C4_FailedWriteAtomic == [][C4_RejectedWrite]_vars

\* A rejected direct write to an option whose history already has an entry
\* after the default.
C4_Witness ==
    /\ pc = "ready"
    /\ last.op \in {"setattr", "setitem"}
    /\ AddressesOption(last)
    /\ last.err = "ValueError"
    /\ Len(_opt_values[lower(last.name)]) >= 2

C5_ReadsAgree ==
    pc = "ready" =>
       \A i \in 1..Len(_options) : \A n \in ItemNames :
          lower(n) = lower(_options[i]) =>
             /\ __getattr__(_options[i]).err = ""
             /\ __getattr__(_options[i]) = __getitem__(n)
C5_WritesAgree ==
    (StepIsDirectWrite /\ AddressesOption(last')) =>
       /\ last'.err = Verdict(last').err
       /\ last'.err = "" =>
             _opt_values' = _set(_opt_values, _opt_validators, SRC_SET,
                                 last'.name, last'.value).vals
       /\ last'.err = "" =>
             Last(_opt_values'[lower(last'.name)]) =
                [source |-> SRC_SET, value |-> Verdict(last').val]

\* C5: for a registered name, attribute access and subscript access (in any
\* letter case) read the same current value, and a write through either path
\* goes through the same validator and the same overwrite rule with tag 'set'.
C5_DualAccessAgreement == []C5_ReadsAgree /\ [][C5_WritesAgree]_vars

\* An option written through the subscript in another letter case than the
\* one it was registered with, then read with a history of several entries.
C5_Witness ==
    /\ pc = "ready"
    /\ last.op = "setitem" /\ last.err = ""
    /\ AddressesOption(last)
    /\ ~IsOption(last.name)
    /\ \E i \in 1..Len(_options) :
          /\ lower(_options[i]) = lower(last.name)
          /\ __getattr__(_options[i]).val = Verdict(last).val
          /\ __getattr__(_options[i]).val # _opt_values[lower(last.name)][1].value

\* C6: an option whose kind is a tuple of a supported kind is accepted: the
\* only kinds construction rejects are those outside str, float, int, bool
\* and the tuples of them.
C6_TupleKindSupported ==
    (pc = "failed" /\ raised.stage = "option-type") =>
       \E i \in 1..Len(call.options) : call.options[i].typ.of \notin TYPEMAP

C7_UnknownSubscript ==
    (StepIsDirectAccess /\ last'.op \in {"getitem", "setitem"}
        /\ lower(last'.name) \notin Registered) =>
       /\ last'.err = "IndexError"
       /\ UNCHANGED object

\* C7: subscript access, read or write, with a name that case-folded is not
\* registered fails with a lookup error, changes no history and registers
\* no option.
C7_UnknownSubscriptFails == [][C7_UnknownSubscript]_vars

\* A subscript write to an unregistered name on an object that has options.
C7_Witness ==
    /\ pc = "ready"
    /\ Registered # {}
    /\ last.op = "setitem"
    /\ lower(last.name) \notin Registered
    /\ last.err = "IndexError"

\* C8: the registered option names are pairwise distinct under case-folding,
\* so the name list and the histories have the same number of entries.
C8_NamesUniqueCaseFolded ==
    pc = "ready" =>
       /\ \A i, j \in 1..Len(_options) :
             lower(_options[i]) = lower(_options[j]) => i = j
       /\ Cardinality(Registered) = Len(_options)

\* The writes of the construction tagged 'environ' (resp. 'argv') for key k.
EnvWrites(k) ==
    { i \in 1..Len(writes) : writes[i].source = SRC_ENVIRON /\ writes[i].key = k }
ArgvWrites(k) ==
    { i \in 1..Len(writes) : writes[i].source = SRC_ARGV /\ writes[i].key = k }
EnvVerdict(k, kind) == Validate(kind, VStr(environ[EnvName(k)]))

\* C9 as stated: the variable of a registered option is written with tag
\* 'environ' exactly when it is present and non-empty; a present but empty
\* variable adds no entry and does not make construction fail.
C9_EnvironNonEmptyOnly ==
    /\ pc = "ready" =>
          \A k \in Registered :
             (EnvWrites(k) # {}) <=> (EnvPresent(k) /\ environ[EnvName(k)] # <<>>)
    /\ (pc = "failed" /\ raised.stage = "environ") =>
          \E k \in CallKeys :
             /\ EnvPresent(k) /\ environ[EnvName(k)] # <<>>
             /\ EnvVerdict(k, CallKind(k)).err # ""

\* C9, amended: the variable of a registered option is written with tag
\* 'environ' exactly when it is present, empty or not; its value goes through
\* the option's validator, so an empty value becomes the 'environ' entry of a
\* str option, and construction fails at this stage exactly with the error of
\* a validator that rejects a present variable.
C9_EnvironWhenPresent ==
    /\ pc = "ready" =>
          \A k \in Registered :
             /\ (EnvWrites(k) # {}) <=> EnvPresent(k)
             /\ EnvPresent(k) =>
                   /\ EnvVerdict(k, _opt_validators[k]).err = ""
                   /\ \E j \in 1..Len(_opt_values[k]) :
                         _opt_values[k][j] =
                            [source |-> SRC_ENVIRON,
                             value |-> EnvVerdict(k, _opt_validators[k]).val]
    /\ (pc = "failed" /\ raised.stage = "environ") =>
          \E k \in CallKeys :
             /\ EnvPresent(k)
             /\ EnvVerdict(k, CallKind(k)).err = raised.err

\* A successful construction in which a present but empty variable was
\* written to its option.
C9_Witness ==
    /\ pc = "ready"
    /\ \E k \in Registered :
          /\ EnvPresent(k) /\ environ[EnvName(k)] = <<>>
          /\ EnvWrites(k) # {}
          /\ \E j \in 1..Len(_opt_values[k]) :
                _opt_values[k][j] = [source |-> SRC_ENVIRON, value |-> VStr(<<>>)]

\* C10: for every configuration name, upper-case letters included, a process
\* argument '--' + lower-cased configuration name + '-' + option name in any
\* casing, followed by a value token, applies that token to the option with
\* tag 'argv'; nothing else is applied with that tag, and a flag that matches
\* no option is ignored without error.
C10_CommandLineContract ==
    /\ pc = "ready" =>
          \A k \in Registered :
             /\ \A i \in FlagFor(k, lower(call.name)) :
                   \E j \in ArgvWrites(k) : writes[j].raw = VStr(argv[i + 2])
             /\ \A j \in ArgvWrites(k) :
                   \E i \in FlagFor(k, lower(call.name)) : writes[j].raw = VStr(argv[i + 2])
    /\ (pc = "failed" /\ raised.stage = "argv") =>
          \E k \in CallKeys : \E i \in FlagFor(k, lower(call.name)) :
             Validate(CallKind(k), VStr(argv[i + 2])).err # ""

\* The length the history of key k had when the constructor returned.
ConstructedLen(k) ==
    Len(writes[Max({ i \in 1..Len(writes) : writes[i].key = k })].after)

\* C11: after a successful construction and any sequence of direct reads and
\* writes, successful or failing, every registered option's history is
\* non-empty, starts with the 'default' entry and has no two adjacent entries
\* with the same source-tag; so the direct writes together grow it by at most
\* one entry.
C11_HistoryShape ==
    pc = "ready" =>
       \A k \in Registered :
          /\ Len(_opt_values[k]) >= 1
          /\ _opt_values[k][1].source = SRC_DEFAULT
          /\ \A i \in 1..(Len(_opt_values[k]) - 1) :
                _opt_values[k][i].source # _opt_values[k][i + 1].source
          /\ ConstructedLen(k) <= Len(_opt_values[k])
          /\ Len(_opt_values[k]) <= ConstructedLen(k) + 1

\* A failing direct write to an option that an earlier direct write had
\* already given its 'set' entry, on top of a default and an environ entry.
C11_Witness ==
    /\ pc = "ready"
    /\ last.op \in {"setattr", "setitem"}
    /\ AddressesOption(last)
    /\ last.err = "ValueError"
    /\ ConstructedLen(lower(last.name)) = 2
    /\ Len(_opt_values[lower(last.name)]) = 3
    /\ Last(_opt_values[lower(last.name)]).source = SRC_SET

====
